---- MODULE Spec2Model ----
(***************************************************************************)
(* The celery worker environment of digitalearthau                        *)
(* (digitalearthau/runners/celery_environment.py): the launcher, the       *)
(* spawned workers, the broker's event stream, the event collector process *)
(* (log_celery_tasks) and the shutdown() closure the launcher returns.     *)
(***************************************************************************)
EXTENDS Integers, Sequences, FiniteSets, TLC

(* ------------------------------ bounds -------------------------------- *)

\* Nodes returned by pbs.nodes(); node 1 hosts the coordinator (is_main).
NumNodes == 2

\* Events (other than worker-offline) the workers publish in one run.
MaxEvents == 2

\* Events published in a replay through the collector's handler.
ReplayEvents == 3

\* Events still undelivered in the broker when the last worker wait returns.
MaxBacklog == 2

\* Events (other than worker-offline) the workers publish where shutdown()
\* is followed to its end under fairness.
LiveEvents == 1

\* Pool processes that log through the shared queue (simple_logging.main
\* starts 50), and log records each of them emits.
NumProducers == 2

RecordsEach == 2

\* Largest num_cores of a node where the node list is an input.
MaxCores == 8

\* Longest hostname given to _just_hostname on its own.
MaxHostLen == 4

\* SIGINT and SIGTERM signals delivered to the collector process in one run.
MaxSignals == 1

(* ------------------------- program constants -------------------------- *)

\* range(5) of the check_redis loop.
RedisChecks == 5

\* recv.consume(limit=None, timeout=5, wakeup=True)
IdleTimeout == 5

\* if ellapsed_shutdown_seconds > 60
DrainCap == 60

\* nprocs = max(1, nprocs - 2)
ReservedCores == 2

\* TASK_ID_RE_EXTRACT: ([a-z0-9-]{36})
IdLen == 36

\* uuid.UUID(hex): the text without its hyphens must be 32 hexadecimal digits.
HexLen == 32

\* simple_logging: MAX_LOG_WAIT = 60 * 5
MAX_LOG_WAIT == 300

\* simple_logging.main: multiprocessing.Queue(maxsize=1)
QueueMaxSize == 1

(* ------------------------------ inputs -------------------------------- *)

Nodes == 1..NumNodes

\* pbs.nodes(): num_cores and is_main of each node (the scenario of the
\* launcher's documentation: a 4-core coordinator host, 8-core workers).
NodeCores(n) == IF n = 1 THEN 4 ELSE 8

NodeIsMain(n) == n = 1

ScenarioNodes == [n \in Nodes |-> [num_cores |-> NodeCores(n), is_main |-> NodeIsMain(n)]]

TaskIds == {"t1"}

None == "None"

\* state.tasks.get(uuid) of a task the tracker does not hold.
NoTask ==
    [id |-> None, state |-> "", traceback |-> None, worker |-> 0,
     kwargs |-> [none |-> TRUE, text |-> <<>>], whost |-> <<>>]

\* Seconds the broker may take to hand over the next event while the
\* receiver waits: at once, or just before the idle timeout expires.
Gaps == {0, IdleTimeout - 1}

Max(a, b) == IF a >= b THEN a ELSE b

Min(a, b) == IF a <= b THEN a ELSE b

(* ------------------------------- state -------------------------------- *)

VARIABLES
    pc,               \* position of the coordinating process
    redis,            \* the redis-server process: "down", "starting" (launched,
                      \* not reachable yet), "up" (reachable), "stopped"
    nchecks,          \* i of `for i in range(5)`
    logger_shutdown,  \* multiprocessing.Value('b', False)
    log_proc,         \* position of the collector process
    worker_procs,     \* list of spawned processes: <<[node, nprocs]>>
    wstate,           \* per node: "unspawned", "running", "exited"
    stop_sent,        \* cr.app.control.shutdown() has been broadcast
    waited,           \* number of p.wait() calls that returned
    steps,            \* shutdown steps completed, in order
    broker,           \* events published and not yet delivered (FIFO)
    npub,             \* events published so far (bounded by MaxEvents)
    state_workers,    \* state.workers: node -> "unseen", "active", "inactive"
    state_tasks,      \* state.tasks: uuid -> NoTask or the task's record
    nhandled,         \* number of events handed to handle_task
    output,           \* lines of the collected-events file
    shutdown_received,\* FALSE while None
    ellapsed_shutdown_seconds, \* time() - shutdown_received, in seconds
    exit_log,         \* what the collector logged when it left its loop
    writer,           \* the JsonLinesWriter: "unopened", "open", "closed"
    flag_unread_seconds, \* observer's clock: seconds the collector has spent
                      \* in consume() with the flag set and not yet read
    nodes,            \* pbs.nodes(): per node [num_cores, is_main]
    signals,          \* SIGINT/SIGTERM signals delivered to the collector
    arg,              \* argument of a function evaluated on its own
    result,           \* what that function returned or raised
    log_queue,        \* simple_logging: the multiprocessing.Queue, oldest first
    producers,        \* per pool process: [pc, left, waited, dropped]
    listener,         \* the SafeQueueListener thread: [state, handled]
    log_main          \* simple_logging.main: [pc, waited]

vars == <<pc, redis, nchecks, logger_shutdown, log_proc, worker_procs,
          wstate, stop_sent, waited, steps, broker, npub, state_workers,
          state_tasks, nhandled, output, shutdown_received, ellapsed_shutdown_seconds,
          exit_log, writer, flag_unread_seconds, nodes, signals, arg, result,
          log_queue, producers, listener, log_main>>

collector_vars == <<log_proc, state_workers, state_tasks, nhandled, output,
                    shutdown_received, ellapsed_shutdown_seconds, exit_log,
                    writer, flag_unread_seconds>>

log_vars == <<log_queue, producers, listener, log_main>>

\* What the launcher, the workers and the collector's loop leave alone.
other_vars == <<nodes, signals, arg, result, log_queue, producers, listener, log_main>>

Producers == 1..NumProducers

\* simple_logging when main() has made the queue and started the listener
\* and the pool: nothing queued, every record still to be logged. `pc` of
\* main is "unstarted" where the program is not run.
LogStart(main_pc) ==
    /\ log_queue = <<>>
    /\ producers = [p \in Producers |->
                      [pc |-> "idle", left |-> RecordsEach, waited |-> 0, dropped |-> 0]]
    /\ listener = [state |-> "running", handled |-> [p \in Producers |-> 0]]
    /\ log_main = [pc |-> main_pc, waited |-> 0]

\* No signal delivered, no function under evaluation.
NoArg == [fn |-> None]

NoResult == [fn |-> None]

OtherInit ==
    /\ signals = 0
    /\ arg = NoArg
    /\ result = NoResult
    /\ LogStart("unstarted")

Init ==
    /\ pc = "launch_redis"
    /\ redis = "down"
    /\ nchecks = 0
    /\ logger_shutdown = FALSE
    /\ log_proc = "unstarted"
    /\ worker_procs = <<>>
    /\ wstate = [n \in Nodes |-> "unspawned"]
    /\ stop_sent = FALSE
    /\ waited = 0
    /\ steps = <<>>
    /\ broker = <<>>
    /\ npub = 0
    /\ state_workers = [n \in Nodes |-> "unseen"]
    /\ state_tasks = [t \in TaskIds |-> NoTask]
    /\ nhandled = 0
    /\ output = <<>>
    /\ shutdown_received = FALSE
    /\ ellapsed_shutdown_seconds = 0
    /\ exit_log = <<>>
    /\ writer = "unopened"
    /\ flag_unread_seconds = 0
    /\ nodes = ScenarioNodes
    /\ OtherInit

(* ------------------- launch_celery_worker_environment ------------------ *)

\* redis_shutdown = cr.launch_redis(...); if not redis_shutdown: raise
LaunchRedis(ok) ==
    /\ pc = "launch_redis"
    /\ IF ok
         THEN redis' = "starting" /\ pc' = "check_redis"
         ELSE redis' = "down" /\ pc' = "raised"
    /\ UNCHANGED <<nchecks, logger_shutdown, worker_procs, stop_sent,
                   waited, steps>>
    /\ UNCHANGED <<wstate, broker, npub>>
    /\ UNCHANGED collector_vars
    /\ UNCHANGED other_vars

\* The launched server starts to accept connections.
RedisReachable ==
    /\ redis = "starting"
    /\ redis' = "up"
    /\ UNCHANGED <<pc, nchecks, logger_shutdown, worker_procs, stop_sent, waited, steps>>
    /\ UNCHANGED <<wstate, broker, npub>>
    /\ UNCHANGED collector_vars
    /\ UNCHANGED other_vars

\* for i in range(5): if cr.check_redis(...) is False: sleep(0.5)
\* The loop has no break, and the result of the last check is not looked at:
\* where the launcher goes after a check depends on the count alone.
AfterCheck(i, reachable) ==
    IF i + 1 = RedisChecks THEN "start_logger" ELSE "check_redis"

CheckRedis ==
    /\ pc = "check_redis"
    /\ nchecks < RedisChecks
    /\ nchecks' = nchecks + 1
    /\ pc' = AfterCheck(nchecks, redis = "up")
    /\ UNCHANGED <<redis, logger_shutdown, worker_procs, stop_sent, waited, steps>>
    /\ UNCHANGED <<wstate, broker, npub>>
    /\ UNCHANGED collector_vars
    /\ UNCHANGED other_vars

\* Mutant: the shared value is created already set.
FlagInitial_set == TRUE

\* multiprocessing.Value('b', False, lock=False)
FlagInitial == FALSE

\* Mutant: the process object is made and start() is left for after the
\* workers.
StartLogProc_deferred ==
    /\ pc = "start_logger"
    /\ logger_shutdown' = FlagInitial
    /\ pc' = "spawn"
    /\ UNCHANGED <<redis, nchecks, worker_procs, stop_sent, waited, steps>>
    /\ UNCHANGED <<wstate, broker, npub>>
    /\ UNCHANGED collector_vars
    /\ UNCHANGED other_vars

\* logger_shutdown = multiprocessing.Value('b', False, lock=False)
\* log_proc = multiprocessing.Process(target=log_celery_tasks, ...); log_proc.start()
StartLogProc ==
    /\ pc = "start_logger"
    /\ logger_shutdown' = FlagInitial
    /\ log_proc' = "starting"
    /\ pc' = "spawn"
    /\ UNCHANGED <<redis, nchecks, worker_procs, stop_sent, waited, steps>>
    /\ UNCHANGED <<wstate, broker, npub>>
    /\ UNCHANGED <<state_workers, state_tasks, nhandled, output, shutdown_received,
                   ellapsed_shutdown_seconds, exit_log, writer, flag_unread_seconds>>
    /\ UNCHANGED other_vars

\* Mutant: the reserved cores are taken off without the floor of one.
NProcs_nofloor(n) ==
    IF nodes[n].is_main THEN nodes[n].num_cores - ReservedCores
    ELSE nodes[n].num_cores

\* nprocs = node.num_cores; if node.is_main: nprocs = max(1, nprocs - 2)
NProcs(n) ==
    IF nodes[n].is_main THEN Max(1, nodes[n].num_cores - ReservedCores)
    ELSE nodes[n].num_cores

\* One pass of `for node in pbs.nodes()`: pbs.pbsdsh(...); worker_procs.append(proc).
\* After the last node the function returns (executor, shutdown).
SpawnWorker ==
    /\ pc = "spawn"
    /\ LET n == Len(worker_procs) + 1 IN
        /\ n \in Nodes
        /\ worker_procs' = Append(worker_procs, [node |-> n, nprocs |-> NProcs(n)])
        /\ wstate' = [wstate EXCEPT ![n] = "running"]
        /\ pc' = IF n = NumNodes THEN "returned" ELSE "spawn"
    /\ UNCHANGED <<redis, nchecks, logger_shutdown, stop_sent, waited, steps>>
    /\ UNCHANGED <<broker, npub>>
    /\ UNCHANGED collector_vars
    /\ UNCHANGED other_vars

(* ------------------------------ shutdown() ----------------------------- *)

\* The caller invokes shutdown(): start_shutdown() is cr.app.control.shutdown(),
\* a broker call that returns (the broker being reachable) or raises; nothing
\* in shutdown() catches.
StartShutdown(ok) ==
    /\ pc = "returned"
    /\ IF ok
         THEN /\ redis = "up"
              /\ stop_sent' = TRUE
              /\ steps' = Append(steps, "signal")
              /\ pc' = "wait"
         ELSE /\ pc' = "shutdown_raised"
              /\ UNCHANGED <<stop_sent, steps>>
    /\ UNCHANGED <<redis, nchecks, logger_shutdown, worker_procs, waited>>
    /\ UNCHANGED <<wstate, broker, npub>>
    /\ UNCHANGED collector_vars
    /\ UNCHANGED other_vars

\* Mutant: p.poll() in place of p.wait(), which returns at once.
WaitReturns_poll(p) == TRUE

\* p.wait() returns once the process has exited.
WaitReturns(p) == wstate[p.node] = "exited"

\* for p in worker_procs: p.wait()   -- returns once that process has exited,
\* or raises (an interrupted wait); the exception leaves shutdown().
WaitWorker(ok) ==
    /\ pc = "wait"
    /\ waited < Len(worker_procs)
    /\ IF ok
         THEN /\ WaitReturns(worker_procs[waited + 1])
              /\ waited' = waited + 1
              /\ IF waited + 1 = Len(worker_procs)
                   THEN pc' = "set_flag" /\ steps' = Append(steps, "wait")
                   ELSE pc' = "wait" /\ UNCHANGED steps
         ELSE /\ pc' = "shutdown_raised"
              /\ UNCHANGED <<waited, steps>>
    /\ UNCHANGED <<redis, nchecks, logger_shutdown, worker_procs, stop_sent>>
    /\ UNCHANGED <<wstate, broker, npub>>
    /\ UNCHANGED collector_vars
    /\ UNCHANGED other_vars

\* logger_shutdown.value = True
SetFlag ==
    /\ pc = "set_flag"
    /\ logger_shutdown' = TRUE
    /\ steps' = Append(steps, "flag")
    /\ pc' = "join"
    /\ UNCHANGED <<redis, nchecks, worker_procs, stop_sent, waited>>
    /\ UNCHANGED <<wstate, broker, npub>>
    /\ UNCHANGED collector_vars
    /\ UNCHANGED other_vars

\* Mutant: join(timeout=0), which does not wait for the process.
Terminated_nowait(p) == TRUE

\* The collector process is gone: it returned, or died of an exception.
Terminated(p) == p \in {"exited", "crashed"}

\* log_proc.join()
JoinLogProc ==
    /\ pc = "join"
    /\ Terminated(log_proc)
    /\ steps' = Append(steps, "join")
    /\ pc' = "redis_shutdown"
    /\ UNCHANGED <<redis, nchecks, logger_shutdown, worker_procs, stop_sent,
                   waited>>
    /\ UNCHANGED <<wstate, broker, npub>>
    /\ UNCHANGED collector_vars
    /\ UNCHANGED other_vars

\* redis_shutdown()
RedisShutdown ==
    /\ pc = "redis_shutdown"
    /\ redis' = "stopped"
    /\ steps' = Append(steps, "redis")
    /\ pc' = "done"
    /\ UNCHANGED <<nchecks, logger_shutdown, worker_procs, stop_sent, waited>>
    /\ UNCHANGED <<wstate, broker, npub>>
    /\ UNCHANGED collector_vars
    /\ UNCHANGED other_vars

(* ---------------------------- raw broker events ------------------------ *)

\* What a worker can publish. `type` is the event type split at its first "-";
\* `state` is the raw state the tracker holds for
\* the task once it has applied the event ("" when it holds none), `tracked`
\* whether state.tasks has the task afterwards, `traceback` the failure detail.
WorkerEventTypes == {<<"worker", "heartbeat">>}

TaskEventInputs ==
    { [type |-> <<"task", "received">>,  state |-> "RECEIVED", tracked |-> TRUE,  traceback |-> None],
      [type |-> <<"task", "failed">>,    state |-> "FAILURE",  tracked |-> TRUE,  traceback |-> "tb"],
      [type |-> <<"task", "started">>,   state |-> "",         tracked |-> TRUE,  traceback |-> None],
      [type |-> <<"task", "succeeded">>, state |-> "SUCCESS",  tracked |-> FALSE, traceback |-> None],
      [type |-> <<"task", "started">>,   state |-> "CUSTOM",   tracked |-> TRUE,  traceback |-> None] }

\* Texts are sequences of characters. In a task's kwargs text "M" is the
\* marker `Dataset <id=` (none of its capital, space, "<" and "=" is in the
\* pattern's class), "h" a hexadecimal digit (0-9, a-f), "z" a letter g-z that
\* is no part of a leading "0x", "-" a hyphen, " " a space and "X" any other
\* character. In a hostname "@" is itself and "a" any other character.
Rep(c, k) == [i \in 1..k |-> c]

\* xxxxxxxx-xxxx-xxxx-xxxx-xxxxxxxxxxxx, the str() of a UUID.
CanonicalId ==
    Rep("h", 8) \o <<"-">> \o Rep("h", 4) \o <<"-">> \o Rep("h", 4) \o <<"-">>
        \o Rep("h", 4) \o <<"-">> \o Rep("h", 12)

\* kwargs text of a task on one dataset: "{'dataset': Dataset <id=... type=...>}"
Kwargs(text) == [none |-> FALSE, text |-> text]

NoKwargs == [none |-> TRUE, text |-> <<>>]

DatasetKwargs == Kwargs(<<"X", "M">> \o CanonicalId \o <<" ", "X">>)

\* The worker's hostname as celery reports it: "celery@<host>".
WorkerHostname(n) == <<"a", "@", "a">>

WorkerEvent(ty, n) ==
    [type |-> ty, hostname |-> n, uuid |-> None, state |-> "", tracked |-> FALSE,
     traceback |-> None, kwargs |-> NoKwargs, whost |-> WorkerHostname(n)]

\* A task event of a task whose arguments name no dataset.
TaskEventOf(in, n, t) ==
    [type |-> in.type, hostname |-> n, uuid |-> t, state |-> in.state,
     tracked |-> in.tracked, traceback |-> in.traceback,
     kwargs |-> Kwargs(<<"X">>), whost |-> WorkerHostname(n)]

Publishable(n) ==
    { WorkerEvent(ty, n) : ty \in WorkerEventTypes }
    \cup { TaskEventOf(in, n, t) : in \in TaskEventInputs, t \in TaskIds }

\* The events of a plain run: heartbeats, and task events the tracker has a
\* mapped state for.
PlainTaskInputs == {in \in TaskEventInputs : in.tracked /\ in.state = "RECEIVED"}

PlainEvents(n) ==
    { WorkerEvent(ty, n) : ty \in WorkerEventTypes }
    \cup { TaskEventOf(in, n, t) : in \in PlainTaskInputs, t \in TaskIds }

\* Task events handle_task cannot turn into a record: a state outside the map,
\* a worker hostname with two "@", arguments whose dataset id is no UUID.
UnknownStateEvent(n, t) ==
    TaskEventOf([type |-> <<"task", "started">>, state |-> "CUSTOM", tracked |-> TRUE,
                 traceback |-> None], n, t)

ReceivedEvent(n, t) ==
    TaskEventOf([type |-> <<"task", "received">>, state |-> "RECEIVED",
                 tracked |-> TRUE, traceback |-> None], n, t)

\* A task event of a task on one dataset.
DatasetEvent(n, t) ==
    [ReceivedEvent(n, t) EXCEPT !.kwargs = DatasetKwargs]

BadHostEvent(n, t) ==
    [ReceivedEvent(n, t) EXCEPT !.whost = <<"a", "@", "a", "@", "a">>]

BadIdEvent(n, t) ==
    [ReceivedEvent(n, t) EXCEPT
        !.kwargs = Kwargs(<<"X", "M">> \o Rep("z", IdLen) \o <<" ">>)]

FatalEvents(n) ==
    UNION { {UnknownStateEvent(n, t), BadHostEvent(n, t), BadIdEvent(n, t)} :
              t \in TaskIds }

\* event_type.startswith('task-'); a type "task-received" is <<"task", "received">>.
IsTaskType(ty) == ty[1] = "task"

(* -------------------------------- workers ------------------------------ *)

\* A running worker publishes an event to the broker.
Publish(n, e, budget) ==
    /\ wstate[n] = "running"
    /\ redis = "up"
    /\ npub < budget
    /\ broker' = Append(broker, e)
    /\ npub' = npub + 1
    /\ UNCHANGED wstate
    /\ UNCHANGED <<pc, redis, nchecks, logger_shutdown, worker_procs, stop_sent,
                   waited, steps>>
    /\ UNCHANGED collector_vars
    /\ UNCHANGED other_vars

WorkerPublish(n, e) == Publish(n, e, MaxEvents)

ReplayPublish(n, e) == Publish(n, e, ReplayEvents)

LivePublish(n, e) == Publish(n, e, LiveEvents)

\* A worker told to shut down publishes worker-offline and its process exits.
WorkerStop(n) ==
    /\ wstate[n] = "running"
    /\ stop_sent
    /\ redis = "up"
    /\ broker' = Append(broker, WorkerEvent(<<"worker", "offline">>, n))
    /\ wstate' = [wstate EXCEPT ![n] = "exited"]
    /\ UNCHANGED npub
    /\ UNCHANGED <<pc, redis, nchecks, logger_shutdown, worker_procs, stop_sent,
                   waited, steps>>
    /\ UNCHANGED collector_vars
    /\ UNCHANGED other_vars

\* A worker process dies (killed, node lost) without a last event.
WorkerCrash(n) ==
    /\ wstate[n] = "running"
    /\ wstate' = [wstate EXCEPT ![n] = "exited"]
    /\ UNCHANGED <<broker, npub>>
    /\ UNCHANGED <<pc, redis, nchecks, logger_shutdown, worker_procs, stop_sent,
                   waited, steps>>
    /\ UNCHANGED collector_vars
    /\ UNCHANGED other_vars

(* --------------------------- celery_event_to_task ---------------------- *)

Raise == "raise"

\* What a text function gives: a text, None, or an exception.
Returned(text) == [raised |-> FALSE, none |-> FALSE, value |-> text]

ReturnedNone == [raised |-> FALSE, none |-> TRUE, value |-> <<>>]

Raises == [raised |-> TRUE, none |-> FALSE, value |-> <<>>]

\* [a-z0-9-]
IdClass == {"h", "z", "-"}

\* TASK_ID_RE_EXTRACT.search(text): the places where the marker is followed by
\* IdLen characters of the class and a space; search() takes the leftmost.
Matches(text) ==
    { i \in DOMAIN text :
        /\ text[i] = "M"
        /\ i + IdLen + 1 <= Len(text)
        /\ \A k \in 1..IdLen : text[i + k] \in IdClass
        /\ text[i + IdLen + 1] = " " }

NotHyphen(c) == c # "-"

\* uuid.UUID(hex): the hyphens are dropped; anything but HexLen hexadecimal
\* digits is a ValueError. The value is the UUID's digits.
UUID(hex) ==
    LET digits == SelectSeq(hex, NotHyphen) IN
    IF Len(digits) # HexLen THEN Raises
    ELSE IF \E i \in DOMAIN digits : digits[i] # "h" THEN Raises
    ELSE Returned(digits)

\* _extract_task_args_dataset_id(kwargs). search(None) is a TypeError.
extract_task_args_dataset_id(kwargs) ==
    IF kwargs.none THEN Raises
    ELSE IF Matches(kwargs.text) = {} THEN ReturnedNone
    ELSE LET i == CHOOSE m \in Matches(kwargs.text) :
                      \A o \in Matches(kwargs.text) : m <= o
         IN  UUID(SubSeq(kwargs.text, i + 1, i + IdLen))

get_task_input_dataset_id(task) == extract_task_args_dataset_id(task.kwargs)

\* hostname.split('@')
RECURSIVE Split(_)
Split(s) ==
    IF \A i \in DOMAIN s : s[i] # "@" THEN <<s>>
    ELSE LET at == CHOOSE i \in DOMAIN s :
                      s[i] = "@" /\ \A j \in 1..(i - 1) : s[j] # "@"
         IN  <<SubSeq(s, 1, at - 1)>> \o Split(SubSeq(s, at + 1, Len(s)))

\* Mutant: parts[0], the user, in place of parts[-1].
just_hostname_first(hostname) ==
    IF \A i \in DOMAIN hostname : hostname[i] # "@" THEN Returned(hostname)
    ELSE LET parts == Split(hostname) IN
         IF Len(parts) # 2 THEN Raises ELSE Returned(parts[1])

\* _just_hostname(hostname)
just_hostname(hostname) ==
    IF \A i \in DOMAIN hostname : hostname[i] # "@" THEN Returned(hostname)
    ELSE LET parts == Split(hostname) IN
         IF Len(parts) # 2 THEN Raises ELSE Returned(parts[Len(parts)])

\* The keys of the map of lines 81-94.
MappedStates ==
    {"PENDING", "RECEIVED", "STARTED", "SUCCESS", "FAILURE", "REVOKED", "REJECTED",
     "RETRY", "IGNORED"}

\* Mutant: map.get(task.state, Status.PENDING), a default in place of None.
celery_statemap_default(st) ==
    CASE st = "PENDING"  -> "PENDING"
      [] st = "RECEIVED" -> "PENDING"
      [] st = "STARTED"  -> "ACTIVE"
      [] st = "SUCCESS"  -> "COMPLETE"
      [] st = "FAILURE"  -> "FAILED"
      [] st = "REVOKED"  -> "CANCELLED"
      [] st = "REJECTED" -> "CANCELLED"
      [] st = "RETRY"    -> "PENDING"
      [] st = "IGNORED"  -> "PENDING"
      [] OTHER           -> "PENDING"

celery_statemap(st) ==
    CASE st = "PENDING"  -> "PENDING"
      [] st = "RECEIVED" -> "PENDING"
      [] st = "STARTED"  -> "ACTIVE"
      [] st = "SUCCESS"  -> "COMPLETE"
      [] st = "FAILURE"  -> "FAILED"
      [] st = "REVOKED"  -> "CANCELLED"
      [] st = "REJECTED" -> "CANCELLED"
      [] st = "RETRY"    -> "PENDING"
      [] st = "IGNORED"  -> "PENDING"
      [] OTHER           -> None

\* f"task.{status.name.lower()}"
EventTag(status) ==
    CASE status = "PENDING"   -> "task.pending"
      [] status = "ACTIVE"    -> "task.active"
      [] status = "COMPLETE"  -> "task.complete"
      [] status = "FAILED"    -> "task.failed"
      [] status = "CANCELLED" -> "task.cancelled"

\* `if status.FAILED:` reads the member FAILED through the member `status`:
\* it is a Status, whatever `status` is, and a Status is true.
StatusFailedAttr(status) == TRUE

\* The three results of celery_event_to_task: None (the task has no state), an
\* exception (a state outside the map, or one out of the dataset id or the
\* hostname), or the TaskEvent.
NoEvent ==
    [result |-> None, event |-> None, status |-> None, id |-> None, message |-> None,
     node |-> 0, input_datasets |-> <<>>, hostname |-> <<>>]

Raised ==
    [result |-> Raise, event |-> None, status |-> None, id |-> None, message |-> None,
     node |-> 0, input_datasets |-> <<>>, hostname |-> <<>>]

\* input_datasets is <<>> for None and <<id>> for (dataset_id,); `node` is
\* the worker the NodeMessage is about, `hostname` the text it carries.
celery_event_to_task(task) ==
    IF task.state = "" THEN NoEvent
    ELSE IF celery_statemap(task.state) = None THEN Raised
    ELSE LET status == celery_statemap(task.state)
             dataset_id == get_task_input_dataset_id(task)
             host == just_hostname(task.whost)
         IN  IF dataset_id.raised \/ host.raised THEN Raised
             ELSE [result  |-> "TaskEvent",
                   event   |-> EventTag(status),
                   status  |-> status,
                   id      |-> task.id,
                   message |-> IF StatusFailedAttr(status) THEN task.traceback ELSE None,
                   node    |-> task.worker,
                   input_datasets |-> IF dataset_id.none THEN <<>>
                                      ELSE <<dataset_id.value>>,
                   hostname |-> host.value]

(* ------------------------- log_celery_tasks ---------------------------- *)

\* signal.signal(SIGINT, SIG_IGN); signal.signal(SIGTERM, SIG_IGN)
CollectorIgnoreSignals ==
    /\ log_proc = "starting"
    /\ log_proc' = "signals_ignored"
    /\ UNCHANGED <<state_workers, state_tasks, nhandled, output, shutdown_received,
                   ellapsed_shutdown_seconds, exit_log, writer, flag_unread_seconds>>
    /\ UNCHANGED <<pc, redis, nchecks, logger_shutdown, worker_procs, stop_sent,
                   waited, steps>>
    /\ UNCHANGED <<wstate, broker, npub>>
    /\ UNCHANGED other_vars

\* Mutant: the two signal.signal calls are missing.
SignalDisposition_default(position) == "default"

\* What the process does with SIGINT or SIGTERM at a position of
\* log_celery_tasks: the default (it dies) until lines 138-139 have run,
\* SIG_IGN from then on.
SignalDisposition(position) ==
    IF position = "starting" THEN "default" ELSE "ignore"

\* The operating system delivers SIGINT or SIGTERM to the collector process.
\* An ignored signal interrupts nothing.
CollectorSignal(sig) ==
    /\ log_proc \in {"starting", "signals_ignored", "consume"}
    /\ signals < MaxSignals
    /\ signals' = signals + 1
    /\ log_proc' = IF SignalDisposition(log_proc) = "default" THEN "crashed"
                   ELSE log_proc
    /\ UNCHANGED <<state_workers, state_tasks, nhandled, output, shutdown_received,
                   ellapsed_shutdown_seconds, exit_log, writer, flag_unread_seconds>>
    /\ UNCHANGED <<pc, redis, nchecks, logger_shutdown, worker_procs, stop_sent,
                   waited, steps>>
    /\ UNCHANGED <<wstate, broker, npub>>
    /\ UNCHANGED <<nodes, arg, result>>
    /\ UNCHANGED log_vars

\* with serialise.JsonLinesWriter(events_path.open('a')) as output:
\*     with app.connection() as connection: recv = app.events.Receiver(...)
CollectorConnect ==
    /\ log_proc = "signals_ignored"
    /\ redis = "up"
    /\ log_proc' = "consume"
    /\ writer' = "open"
    /\ shutdown_received' = FALSE
    /\ UNCHANGED <<state_workers, state_tasks, nhandled, output,
                   ellapsed_shutdown_seconds, exit_log, flag_unread_seconds>>
    /\ UNCHANGED <<pc, redis, nchecks, logger_shutdown, worker_procs, stop_sent,
                   waited, steps>>
    /\ UNCHANGED <<wstate, broker, npub>>
    /\ UNCHANGED other_vars

\* Mutant: state.event(event) is called after the `return` for events that
\* are no task events.
StateEventWorkers_afterfilter(workers, event) ==
    IF IsTaskType(event.type)
      THEN IF workers[event.hostname] = "unseen"
             THEN [workers EXCEPT ![event.hostname] = "inactive"]
             ELSE workers
      ELSE workers

\* state.event(event), the tracker's update: a worker event sets that
\* worker's `active`, a task event sets the task's record (and makes the
\* worker known). The record is updated with the event's fields: a traceback
\* stays until an event brings another.
StateEventWorkers(workers, event) ==
    IF IsTaskType(event.type)
      THEN IF workers[event.hostname] = "unseen"
             THEN [workers EXCEPT ![event.hostname] = "inactive"]
             ELSE workers
      ELSE [workers EXCEPT ![event.hostname] =
               IF event.type[2] = "offline" THEN "inactive" ELSE "active"]

StateEventTasks(tasks, event) ==
    IF IsTaskType(event.type)
      THEN [tasks EXCEPT ![event.uuid] =
               IF event.tracked
                 THEN [id |-> event.uuid, state |-> event.state,
                       traceback |-> IF event.traceback # None
                                       THEN event.traceback
                                       ELSE tasks[event.uuid].traceback,
                       worker |-> event.hostname,
                       kwargs |-> event.kwargs, whost |-> event.whost]
                 ELSE NoTask]
      ELSE tasks

\* JsonLinesWriter.write_item: one call, one line appended. `src` is the
\* position, among the events handled, of the event the line was written for.
write_item(out, src, item) == Append(out, [src |-> src, item |-> item])

\* JsonLinesWriter.__exit__, which the `with` statement of line 163 calls on
\* every way out of its block.
WriterExit(w) == "closed"

\* handle_task(event): "skip" (not a task event), "no task" (unknown to the
\* tracker), "raise" (the normalizer raised) or "write".
HandleOutcome(tasks, event) ==
    IF ~IsTaskType(event.type) THEN "skip"
    ELSE IF tasks[event.uuid] = NoTask THEN "no task"
    ELSE IF celery_event_to_task(tasks[event.uuid]).result = Raise THEN "raise"
    ELSE "write"

\* Mutant: the `return` after "No task found" is lost, and the lookup's
\* result goes to the normalizer and the writer.
HandleOutput_noreturn(out, src, tasks, event) ==
    IF HandleOutcome(tasks, event) \in {"write", "no task"}
      THEN write_item(out, src, celery_event_to_task(tasks[event.uuid]))
      ELSE out

\* The output file after handle_task(event), given the tracker's tasks after
\* state.event(event).
HandleOutput(out, src, tasks, event) ==
    IF HandleOutcome(tasks, event) = "write"
      THEN write_item(out, src, celery_event_to_task(tasks[event.uuid]))
      ELSE out

\* The exception handle_task dies of when its outcome is "raise": RuntimeError
\* for a state outside the map, TypeError for kwargs None, ValueError for a
\* text that is no UUID or a hostname with several "@".
ExceptionOf(tasks, event) ==
    IF celery_statemap(tasks[event.uuid].state) = None THEN "RuntimeError"
    ELSE IF tasks[event.uuid].kwargs.none THEN "TypeError"
    ELSE "ValueError"

\* Mutant: a bare `except:` around consume().
Caught_any(exc) == TRUE

\* except socket.timeout: pass
Caught(exc) == exc = "socket.timeout"

\* Mutant: `shutdown_received = time()`, without the `or`: the drain timer
\* restarts at every check.
Advance_restart(d) == ellapsed_shutdown_seconds' = 0

\* time() - shutdown_received after d more seconds in the consume loop (kept
\* exact up to one idle timeout past the cap).
Advance(d) ==
    ellapsed_shutdown_seconds' = IF shutdown_received
                  THEN Min(ellapsed_shutdown_seconds + d, DrainCap + IdleTimeout + 1)
                  ELSE ellapsed_shutdown_seconds

\* The observer's clock: d more seconds have gone by in consume() while the
\* flag is set and the collector has not read it (kept exact up to two idle
\* timeouts). CollectorConsume and CollectorIdle say nothing of this clock; a
\* specification runs it (Unread) or leaves it stopped (Untimed).
Unread(d) ==
    flag_unread_seconds' = IF logger_shutdown /\ ~shutdown_received
                  THEN Min(flag_unread_seconds + d, 2 * IdleTimeout)
                  ELSE flag_unread_seconds

Untimed == UNCHANGED flag_unread_seconds

\* One pass of `for _ in recv.consume(...)`: the broker hands over its oldest
\* event after `gap` seconds (less than the idle timeout) and handle_task runs.
\* An exception of handle_task leaves the loop and the process.
CollectorConsume(gap) ==
    /\ log_proc = "consume"
    /\ broker # <<>>
    /\ LET event == Head(broker)
           tasks == StateEventTasks(state_tasks, event)
       IN  /\ broker' = Tail(broker)
           /\ nhandled' = nhandled + 1
           /\ state_workers' = StateEventWorkers(state_workers, event)
           /\ state_tasks' = tasks
           /\ output' = HandleOutput(output, nhandled + 1, tasks, event)
           /\ IF HandleOutcome(tasks, event) = "raise"
                   /\ ~Caught(ExceptionOf(tasks, event))
                THEN log_proc' = "crashed" /\ writer' = WriterExit(writer)
                ELSE log_proc' = "consume" /\ writer' = writer
    /\ Advance(gap)
    /\ UNCHANGED <<shutdown_received, exit_log>>
    /\ UNCHANGED <<pc, redis, nchecks, logger_shutdown, worker_procs, stop_sent,
                   waited, steps>>
    /\ UNCHANGED <<wstate, npub>>
    /\ UNCHANGED other_vars

\* As CollectorConsume, for an event handle_task has a TaskEvent for, when
\* output.write_item raises OSError (the file system is full or gone).
CollectorWriteFails(gap) ==
    /\ log_proc = "consume"
    /\ broker # <<>>
    /\ LET event == Head(broker)
           tasks == StateEventTasks(state_tasks, event)
       IN  /\ HandleOutcome(tasks, event) = "write"
           /\ broker' = Tail(broker)
           /\ nhandled' = nhandled + 1
           /\ state_workers' = StateEventWorkers(state_workers, event)
           /\ state_tasks' = tasks
           /\ output' = output
           /\ IF ~Caught("OSError")
                THEN log_proc' = "crashed" /\ writer' = WriterExit(writer)
                ELSE log_proc' = "consume" /\ writer' = writer
    /\ Advance(gap)
    /\ UNCHANGED <<shutdown_received, exit_log>>
    /\ UNCHANGED <<pc, redis, nchecks, logger_shutdown, worker_procs, stop_sent,
                   waited, steps>>
    /\ UNCHANGED <<wstate, npub>>
    /\ UNCHANGED other_vars

\* Mutant: every spawned worker counts until its worker-offline has been
\* seen, known to the tracker or not.
ActiveWorkers_expected(workers) == {n \in DOMAIN workers : workers[n] # "inactive"}

\* sum(1 for w in state.workers.values() if w.active)
ActiveWorkers(workers) == {n \in DOMAIN workers : workers[n] = "active"}

\* Mutant: the drain timer is started as soon as the flag is seen, before the
\* workers are counted.
CheckShutdown_timerfirst(flag, workers, received, secs) ==
    IF ~flag
      THEN [leave |-> FALSE, received |-> received, reason |-> None]
    ELSE IF Cardinality(ActiveWorkers(workers)) = 0
      THEN [leave |-> TRUE, received |-> TRUE, reason |-> "all workers finished"]
    ELSE IF (IF received THEN secs ELSE 0) > DrainCap
      THEN [leave |-> TRUE, received |-> TRUE, reason |-> "time-limit reached"]
    ELSE [leave |-> FALSE, received |-> TRUE, reason |-> None]

\* Mutant: `if should_shutdown.value:` is lost and its body runs at every
\* idle timeout.
CheckShutdown_noflag(flag, workers, received, secs) ==
    IF Cardinality(ActiveWorkers(workers)) = 0
      THEN [leave |-> TRUE, received |-> received, reason |-> "all workers finished"]
    ELSE IF (IF received THEN secs ELSE 0) > DrainCap
      THEN [leave |-> TRUE, received |-> TRUE, reason |-> "time-limit reached"]
    ELSE [leave |-> FALSE, received |-> TRUE, reason |-> None]

\* Lines 182-193: the check after an idle timeout. `flag` is
\* should_shutdown.value, `received` whether shutdown_received is set, `secs`
\* the seconds since it was set.
CheckShutdown(flag, workers, received, secs) ==
    IF ~flag
      THEN [leave |-> FALSE, received |-> received, reason |-> None]
    ELSE IF Cardinality(ActiveWorkers(workers)) = 0
      THEN [leave |-> TRUE, received |-> received, reason |-> "all workers finished"]
    ELSE IF (IF received THEN secs ELSE 0) > DrainCap
      THEN [leave |-> TRUE, received |-> TRUE, reason |-> "time-limit reached"]
    ELSE [leave |-> FALSE, received |-> TRUE, reason |-> None]

\* recv.consume raises socket.timeout after IdleTimeout seconds without an
\* event (the broker may still hold undelivered ones); the loop then reads the
\* flag. On break the with blocks close the output, the final tallies are
\* logged with the workers still active, and the process returns.
CollectorIdle ==
    /\ log_proc = "consume"
    /\ Advance(IdleTimeout)
    /\ LET c == CheckShutdown(logger_shutdown, state_workers, shutdown_received, ellapsed_shutdown_seconds')
       IN  /\ shutdown_received' = c.received
           /\ log_proc' = IF c.leave THEN "exited" ELSE "consume"
           /\ writer' = IF c.leave THEN WriterExit(writer) ELSE writer
           /\ exit_log' = IF c.leave
                            THEN <<[reason |-> c.reason,
                                    missed |-> ActiveWorkers(state_workers)]>>
                            ELSE exit_log
    /\ UNCHANGED <<state_workers, state_tasks, nhandled, output>>
    /\ UNCHANGED <<pc, redis, nchecks, logger_shutdown, worker_procs, stop_sent,
                   waited, steps>>
    /\ UNCHANGED <<wstate, broker, npub>>
    /\ UNCHANGED other_vars

(* ---------------------------- specification ---------------------------- *)

Next ==
    \/ \E ok \in BOOLEAN : LaunchRedis(ok)
    \/ RedisReachable
    \/ CheckRedis
    \/ StartLogProc
    \/ SpawnWorker
    \/ \E ok \in BOOLEAN : StartShutdown(ok)
    \/ \E ok \in BOOLEAN : WaitWorker(ok)
    \/ SetFlag
    \/ JoinLogProc
    \/ RedisShutdown
    \/ \E n \in Nodes : \E e \in PlainEvents(n) : WorkerPublish(n, e)
    \/ \E n \in Nodes : WorkerStop(n)
    \/ \E n \in Nodes : WorkerCrash(n)
    \/ CollectorIgnoreSignals
    \/ CollectorConnect
    \/ \E gap \in Gaps : CollectorConsume(gap) /\ Untimed
    \/ CollectorIdle /\ Untimed

Spec == Init /\ [][Next]_vars

\* Replay: the environment is up (the state launch_celery_worker_environment
\* returns in, the collector connected) and the workers publish any event.
ReplayInit ==
    /\ pc = "returned"
    /\ redis = "up"
    /\ nchecks = RedisChecks
    /\ logger_shutdown = FALSE
    /\ log_proc = "consume"
    /\ nodes = ScenarioNodes
    /\ worker_procs = [n \in Nodes |-> [node |-> n, nprocs |-> NProcs(n)]]
    /\ wstate = [n \in Nodes |-> "running"]
    /\ stop_sent = FALSE
    /\ waited = 0
    /\ steps = <<>>
    /\ broker = <<>>
    /\ npub = 0
    /\ state_workers = [n \in Nodes |-> "unseen"]
    /\ state_tasks = [t \in TaskIds |-> NoTask]
    /\ nhandled = 0
    /\ output = <<>>
    /\ shutdown_received = FALSE
    /\ ellapsed_shutdown_seconds = 0
    /\ exit_log = <<>>
    /\ writer = "open"
    /\ flag_unread_seconds = 0
    /\ OtherInit

ReplayNext ==
    \/ \E n \in Nodes : \E e \in Publishable(n) : ReplayPublish(n, e)
    \/ \E gap \in Gaps : CollectorConsume(gap) /\ Untimed
    \/ CollectorIdle /\ Untimed

ReplaySpec == ReplayInit /\ [][ReplayNext]_vars

\* Launch on any node list: every node has between 1 and MaxCores cores and
\* one of them is the host the launcher runs on.
NodeLists ==
    { nl \in [Nodes -> [num_cores : 1..MaxCores, is_main : BOOLEAN]] :
        Cardinality({n \in Nodes : nl[n].is_main}) = 1 }

LaunchInit ==
    /\ pc = "launch_redis"
    /\ redis = "down"
    /\ nchecks = 0
    /\ logger_shutdown = FALSE
    /\ log_proc = "unstarted"
    /\ worker_procs = <<>>
    /\ wstate = [n \in Nodes |-> "unspawned"]
    /\ stop_sent = FALSE
    /\ waited = 0
    /\ steps = <<>>
    /\ broker = <<>>
    /\ npub = 0
    /\ state_workers = [n \in Nodes |-> "unseen"]
    /\ state_tasks = [t \in TaskIds |-> NoTask]
    /\ nhandled = 0
    /\ output = <<>>
    /\ shutdown_received = FALSE
    /\ ellapsed_shutdown_seconds = 0
    /\ exit_log = <<>>
    /\ writer = "unopened"
    /\ flag_unread_seconds = 0
    /\ nodes \in NodeLists
    /\ OtherInit

LaunchNext ==
    \/ \E ok \in BOOLEAN : LaunchRedis(ok)
    \/ RedisReachable
    \/ CheckRedis
    \/ StartLogProc
    \/ SpawnWorker

LaunchSpec == LaunchInit /\ [][LaunchNext]_vars

\* Drain: shutdown() from the return of its last p.wait(). The workers are
\* gone; the broker still holds what they published and the collector has
\* not consumed: heartbeats, worker-offline, task events, and from the
\* coordinator's node a task event on a dataset and task events that
\* handle_task cannot turn into a record.
DrainEvents ==
    UNION { PlainEvents(n) \cup {WorkerEvent(<<"worker", "offline">>, n)} : n \in Nodes }
    \cup FatalEvents(1)
    \cup {DatasetEvent(1, t) : t \in TaskIds}

Backlogs == UNION { [1..k -> DrainEvents] : k \in 0..MaxBacklog }

DrainInit ==
    /\ pc = "set_flag"
    /\ redis = "up"
    /\ nchecks = RedisChecks
    /\ logger_shutdown = FALSE
    /\ log_proc = "consume"
    /\ nodes = ScenarioNodes
    /\ worker_procs = [n \in Nodes |-> [node |-> n, nprocs |-> NProcs(n)]]
    /\ wstate = [n \in Nodes |-> "exited"]
    /\ stop_sent = TRUE
    /\ waited = NumNodes
    /\ steps = <<"signal", "wait">>
    /\ broker \in Backlogs
    /\ npub = Len(broker)
    /\ state_workers = [n \in Nodes |-> "unseen"]
    /\ state_tasks = [t \in TaskIds |-> NoTask]
    /\ nhandled = 0
    /\ output = <<>>
    /\ shutdown_received = FALSE
    /\ ellapsed_shutdown_seconds = 0
    /\ exit_log = <<>>
    /\ writer = "open"
    /\ flag_unread_seconds = 0
    /\ OtherInit

DrainNext ==
    \/ SetFlag
    \/ JoinLogProc
    \/ RedisShutdown
    \/ \E gap \in Gaps : CollectorConsume(gap) /\ Unread(gap)
    \/ \E gap \in Gaps : CollectorWriteFails(gap) /\ Unread(gap)
    \/ CollectorIdle /\ Unread(IdleTimeout)

DrainSpec == DrainInit /\ [][DrainNext]_vars

\* Signals: a run from launch to the end of shutdown() in which the workers
\* publish nothing but their worker-offline, and SIGINT or SIGTERM reaches the
\* collector process at any point of its life.
SignalNext ==
    \/ \E ok \in BOOLEAN : LaunchRedis(ok)
    \/ RedisReachable
    \/ CheckRedis
    \/ StartLogProc
    \/ SpawnWorker
    \/ \E ok \in BOOLEAN : StartShutdown(ok)
    \/ \E ok \in BOOLEAN : WaitWorker(ok)
    \/ SetFlag
    \/ JoinLogProc
    \/ RedisShutdown
    \/ \E n \in Nodes : WorkerStop(n)
    \/ \E n \in Nodes : WorkerCrash(n)
    \/ CollectorIgnoreSignals
    \/ CollectorConnect
    \/ \E sig \in {"SIGINT", "SIGTERM"} : CollectorSignal(sig)
    \/ \E gap \in Gaps : CollectorConsume(gap) /\ Untimed
    \/ CollectorIdle /\ Untimed

SignalSpec == Init /\ [][SignalNext]_vars

\* Termination: the environment is up and the caller may call shutdown().
\* A worker told to stop exits; a wait whose process has exited returns (or
\* raises); the steps of shutdown() follow one another; and the broker's
\* stream goes idle for a whole idle timeout again and again, so the
\* collector reaches its check.
LiveNext ==
    \/ \E ok \in BOOLEAN : StartShutdown(ok)
    \/ \E ok \in BOOLEAN : WaitWorker(ok)
    \/ SetFlag
    \/ JoinLogProc
    \/ RedisShutdown
    \/ \E n \in Nodes : \E e \in PlainEvents(n) : LivePublish(n, e)
    \/ \E n \in Nodes : WorkerStop(n)
    \/ \E n \in Nodes : WorkerCrash(n)
    \/ \E gap \in Gaps : CollectorConsume(gap) /\ Untimed
    \/ CollectorIdle /\ Untimed

LiveFairness ==
    /\ WF_vars(\E ok \in BOOLEAN : WaitWorker(ok))
    /\ WF_vars(SetFlag)
    /\ WF_vars(JoinLogProc)
    /\ WF_vars(RedisShutdown)
    /\ \A n \in Nodes : WF_vars(WorkerStop(n))
    /\ WF_vars(CollectorIdle /\ Untimed)

LiveSpec == ReplayInit /\ [][LiveNext]_vars /\ LiveFairness

(* ----------------------------- simple_logging -------------------------- *)

\* The sentinel's sender.
Main == 0

\* Seconds a blocked put waits between two looks at the queue.
PutWait == MAX_LOG_WAIT \div 2

QueueFull == Len(log_queue) >= QueueMaxSize

\* Mutant: QueueHandler.enqueue as inherited, self.queue.put_nowait(record).
PutOutcome_nowait(full, blocked) ==
    IF ~full THEN "enqueue" ELSE "raise"

\* queue.put(item, timeout=MAX_LOG_WAIT): the item goes in when there is
\* room; a full queue blocks the caller, and queue.Full is raised when the
\* timeout has run out.
PutOutcome(full, blocked) ==
    IF ~full THEN "enqueue"
    ELSE IF blocked >= MAX_LOG_WAIT THEN "raise"
    ELSE "block"

\* A queued item: who put it, and how long its put had waited.
Item(from, blocked) == [from |-> from, waited |-> blocked]

\* _LOG.info(...) in a pool process: BlockingQueueHandler.enqueue is called.
Enqueue(p) ==
    /\ log_main.pc = "pool"
    /\ producers[p].pc = "idle"
    /\ producers[p].left > 0
    /\ producers' = [producers EXCEPT ![p].pc = "putting", ![p].waited = 0]
    /\ UNCHANGED <<log_queue, listener, log_main>>
    /\ UNCHANGED <<nodes, signals, arg, result>>
    /\ UNCHANGED <<pc, redis, nchecks, logger_shutdown, worker_procs, stop_sent,
                   waited, steps>>
    /\ UNCHANGED <<wstate, broker, npub>>
    /\ UNCHANGED collector_vars

\* self.queue.put(record, timeout=MAX_LOG_WAIT) goes on: the record is
\* queued, or the caller has waited PutWait more seconds, or queue.Full is
\* raised to the logging call, which goes on without the record.
ProducerPut(p) ==
    /\ producers[p].pc = "putting"
    /\ LET me == producers[p]
           outcome == PutOutcome(QueueFull, me.waited)
       IN  /\ log_queue' = IF outcome = "enqueue"
                             THEN Append(log_queue, Item(p, me.waited))
                             ELSE log_queue
           /\ producers' = [producers EXCEPT ![p] =
                 IF outcome = "enqueue"
                   THEN [pc |-> "idle", left |-> me.left - 1, waited |-> 0,
                         dropped |-> me.dropped]
                 ELSE IF outcome = "raise"
                   THEN [pc |-> "idle", left |-> me.left - 1, waited |-> 0,
                         dropped |-> me.dropped + 1]
                 ELSE [me EXCEPT !.waited = Min(me.waited + PutWait, MAX_LOG_WAIT)]]
    /\ UNCHANGED <<listener, log_main>>
    /\ UNCHANGED <<nodes, signals, arg, result>>
    /\ UNCHANGED <<pc, redis, nchecks, logger_shutdown, worker_procs, stop_sent,
                   waited, steps>>
    /\ UNCHANGED <<wstate, broker, npub>>
    /\ UNCHANGED collector_vars

\* The listener thread: record = self.queue.get(True); the sentinel ends the
\* thread, any other record goes to the handler.
ListenerGet ==
    /\ listener.state = "running"
    /\ log_queue # <<>>
    /\ log_queue' = Tail(log_queue)
    /\ listener' = IF Head(log_queue).from = Main
                     THEN [listener EXCEPT !.state = "stopped"]
                     ELSE [listener EXCEPT !.handled[Head(log_queue).from] = @ + 1]
    /\ UNCHANGED <<producers, log_main>>
    /\ UNCHANGED <<nodes, signals, arg, result>>
    /\ UNCHANGED <<pc, redis, nchecks, logger_shutdown, worker_procs, stop_sent,
                   waited, steps>>
    /\ UNCHANGED <<wstate, broker, npub>>
    /\ UNCHANGED collector_vars

\* pool.imap_unordered(do_stuff, ...) is exhausted: every call of do_stuff,
\* and so every logging call of the pool, has returned. main goes on to
\* ql.stop().
PoolDone ==
    /\ log_main.pc = "pool"
    /\ \A p \in Producers : producers[p].pc = "idle" /\ producers[p].left = 0
    /\ log_main' = [pc |-> "enqueue_sentinel", waited |-> 0]
    /\ UNCHANGED <<log_queue, producers, listener>>
    /\ UNCHANGED <<nodes, signals, arg, result>>
    /\ UNCHANGED <<pc, redis, nchecks, logger_shutdown, worker_procs, stop_sent,
                   waited, steps>>
    /\ UNCHANGED <<wstate, broker, npub>>
    /\ UNCHANGED collector_vars

\* ql.stop(): SafeQueueListener.enqueue_sentinel,
\* self.queue.put(self._sentinel, timeout=MAX_LOG_WAIT).
SentinelPut ==
    /\ log_main.pc = "enqueue_sentinel"
    /\ LET outcome == PutOutcome(QueueFull, log_main.waited)
       IN  /\ log_queue' = IF outcome = "enqueue"
                             THEN Append(log_queue, Item(Main, log_main.waited))
                             ELSE log_queue
           /\ log_main' =
                 IF outcome = "enqueue" THEN [pc |-> "join", waited |-> 0]
                 ELSE IF outcome = "raise" THEN [pc |-> "raised", waited |-> log_main.waited]
                 ELSE [log_main EXCEPT !.waited = Min(@ + PutWait, MAX_LOG_WAIT)]
    /\ UNCHANGED <<producers, listener>>
    /\ UNCHANGED <<nodes, signals, arg, result>>
    /\ UNCHANGED <<pc, redis, nchecks, logger_shutdown, worker_procs, stop_sent,
                   waited, steps>>
    /\ UNCHANGED <<wstate, broker, npub>>
    /\ UNCHANGED collector_vars

\* ql.stop(): self._thread.join() returns once the thread has ended.
ListenerJoin ==
    /\ log_main.pc = "join"
    /\ listener.state = "stopped"
    /\ log_main' = [log_main EXCEPT !.pc = "done"]
    /\ UNCHANGED <<log_queue, producers, listener>>
    /\ UNCHANGED <<nodes, signals, arg, result>>
    /\ UNCHANGED <<pc, redis, nchecks, logger_shutdown, worker_procs, stop_sent,
                   waited, steps>>
    /\ UNCHANGED <<wstate, broker, npub>>
    /\ UNCHANGED collector_vars

LogInit ==
    /\ pc = "launch_redis"
    /\ redis = "down"
    /\ nchecks = 0
    /\ logger_shutdown = FALSE
    /\ log_proc = "unstarted"
    /\ worker_procs = <<>>
    /\ wstate = [n \in Nodes |-> "unspawned"]
    /\ stop_sent = FALSE
    /\ waited = 0
    /\ steps = <<>>
    /\ broker = <<>>
    /\ npub = 0
    /\ state_workers = [n \in Nodes |-> "unseen"]
    /\ state_tasks = [t \in TaskIds |-> NoTask]
    /\ nhandled = 0
    /\ output = <<>>
    /\ shutdown_received = FALSE
    /\ ellapsed_shutdown_seconds = 0
    /\ exit_log = <<>>
    /\ writer = "unopened"
    /\ flag_unread_seconds = 0
    /\ nodes = ScenarioNodes
    /\ signals = 0
    /\ arg = NoArg
    /\ result = NoResult
    /\ LogStart("pool")

LogNext ==
    \/ \E p \in Producers : Enqueue(p)
    \/ \E p \in Producers : ProducerPut(p)
    \/ ListenerGet
    \/ PoolDone
    \/ SentinelPut
    \/ ListenerJoin

LogSpec == LogInit /\ [][LogNext]_vars

(* --------------------- the text functions on their own ----------------- *)

\* Texts of IdLen characters after the marker: a UUID's str(), its digits with
\* the hyphens elsewhere, IdLen digits and no hyphen, a UUID with a letter
\* that is no digit, and one with a character outside the class; and texts of
\* one character less and one more.
IdTexts ==
    { CanonicalId,
      Rep("-", 4) \o Rep("h", HexLen),
      Rep("h", IdLen),
      <<"z">> \o Tail(CanonicalId),
      <<"X">> \o Tail(CanonicalId),
      Tail(CanonicalId),
      CanonicalId \o <<"h">> }

KwargsInputs ==
    { NoKwargs, Kwargs(<<>>), Kwargs(<<"X">>), Kwargs(<<"M">>),
      Kwargs(CanonicalId \o <<" ">>) }
    \cup { Kwargs(pre \o <<"M">> \o id \o post) :
             pre \in {<<>>, <<"X">>}, id \in IdTexts,
             post \in {<<>>, <<" ">>, <<"X">>, <<" ", "X">>} }

RECURSIVE Texts(_, _)
Texts(chars, k) ==
    IF k = 0 THEN {<<>>}
    ELSE Texts(chars, k - 1)
         \cup { Append(t, c) : t \in Texts(chars, k - 1), c \in chars }

HostnameInputs == Texts({"a", "@"}, MaxHostLen)

\* Tracker views of a task: any mapped state, no state, states outside the
\* map (the map's keys are upper case), with and without a traceback, a
\* dataset, none or nothing as arguments, a bare, a qualified or a twice
\* qualified worker hostname.
RawStates == MappedStates \cup {"", "CUSTOM", "success"}

TaskViews ==
    [id : TaskIds, state : RawStates, traceback : {None, "tb"}, worker : {1},
     kwargs : {DatasetKwargs, Kwargs(<<"X">>), NoKwargs},
     whost : {<<"a">>, <<"a", "@", "a">>, <<"a", "@", "a", "@", "a">>}]

FnInputs ==
    { [fn |-> "celery_event_to_task", task |-> t] : t \in TaskViews }
    \cup { [fn |-> "extract_task_args_dataset_id", kwargs |-> k] : k \in KwargsInputs }
    \cup { [fn |-> "just_hostname", hostname |-> h] : h \in HostnameInputs }

FnInit ==
    /\ pc = "launch_redis"
    /\ redis = "down"
    /\ nchecks = 0
    /\ logger_shutdown = FALSE
    /\ log_proc = "unstarted"
    /\ worker_procs = <<>>
    /\ wstate = [n \in Nodes |-> "unspawned"]
    /\ stop_sent = FALSE
    /\ waited = 0
    /\ steps = <<>>
    /\ broker = <<>>
    /\ npub = 0
    /\ state_workers = [n \in Nodes |-> "unseen"]
    /\ state_tasks = [t \in TaskIds |-> NoTask]
    /\ nhandled = 0
    /\ output = <<>>
    /\ shutdown_received = FALSE
    /\ ellapsed_shutdown_seconds = 0
    /\ exit_log = <<>>
    /\ writer = "unopened"
    /\ flag_unread_seconds = 0
    /\ nodes = ScenarioNodes
    /\ signals = 0
    /\ arg \in FnInputs
    /\ result = NoResult
    /\ LogStart("unstarted")

Eval(fn, out) ==
    /\ arg.fn = fn
    /\ result = NoResult
    /\ result' = [fn |-> fn, out |-> out]
    /\ UNCHANGED <<pc, redis, nchecks, logger_shutdown, worker_procs, stop_sent,
                   waited, steps>>
    /\ UNCHANGED <<wstate, broker, npub>>
    /\ UNCHANGED collector_vars
    /\ UNCHANGED <<nodes, signals, arg>>
    /\ UNCHANGED log_vars

EvalEventToTask ==
    /\ arg.fn = "celery_event_to_task"
    /\ Eval("celery_event_to_task", celery_event_to_task(arg.task))

EvalExtract ==
    /\ arg.fn = "extract_task_args_dataset_id"
    /\ Eval("extract_task_args_dataset_id", extract_task_args_dataset_id(arg.kwargs))

EvalJustHostname ==
    /\ arg.fn = "just_hostname"
    /\ Eval("just_hostname", just_hostname(arg.hostname))

FnNext ==
    \/ EvalEventToTask
    \/ EvalExtract
    \/ EvalJustHostname

FnSpec == FnInit /\ [][FnNext]_vars

(* ================================ claims =============================== *)

ShutdownSteps == <<"signal", "wait", "flag", "join", "redis">>

IsPrefix(a, b) == Len(a) <= Len(b) /\ SubSeq(b, 1, Len(a)) = a

TaskEventsLeft == {i \in DOMAIN broker : IsTaskType(broker[i].type)}

\* C1: no event is lost at shutdown: when shutdown() has returned, every task
\* event a worker published has been written to the event log, so none is
\* still undelivered in the broker.
C1_NoEventLost ==
    pc = "done" => TaskEventsLeft = {}

\* C2: the shutdown flag is true only after the wait on every spawned worker
\* process has returned; it is never true while a spawned worker process is
\* still running.
C2_FlagAfterWorkers ==
    logger_shutdown =>
        /\ waited = Len(worker_procs)
        /\ \A i \in DOMAIN worker_procs : wstate[worker_procs[i].node] = "exited"
        /\ \A n \in Nodes : wstate[n] # "running"

C2_Witness ==
    /\ logger_shutdown
    /\ Len(worker_procs) = NumNodes
    /\ log_proc = "consume"

\* C3: shutdown() performs its steps in the order stop signal, worker waits,
\* flag, collector join, broker stop; the broker is stopped only after the
\* collector process has terminated, so the collector never consumes from a
\* broker that shutdown() has torn down.
C3_ShutdownOrder ==
    /\ IsPrefix(steps, ShutdownSteps)
    /\ redis = "stopped" => log_proc \in {"exited", "crashed"}
    /\ redis = "stopped" => logger_shutdown /\ stop_sent /\ waited = Len(worker_procs)

C3_Witness ==
    /\ redis = "stopped"
    /\ steps = ShutdownSteps
    /\ log_proc = "exited"

\* C4: a failing step of shutdown() does not abort the later ones: however
\* shutdown() ends, the flag has been set, the collector joined and the
\* broker stopped.
C4_LaterStepsRun ==
    pc \in {"done", "shutdown_raised"} =>
        /\ logger_shutdown
        /\ log_proc \in {"exited", "crashed"}
        /\ redis = "stopped"

\* C5: once the flag is seen with workers still active, the collector stops
\* when the drain cap elapses (at the latest one idle timeout after it),
\* also when events keep arriving less than an idle timeout apart.
C5_StopsByCap ==
    (shutdown_received /\ log_proc \in {"consume", "exited"}) =>
        ellapsed_shutdown_seconds <= DrainCap + IdleTimeout

\* C6: when the collector checks the flag and finds it true with no worker of
\* its view active, it leaves the loop at that check, and neither starts nor
\* waits for the drain timer.
C6_LeavesAtCheck ==
    [][ (CollectorIdle /\ logger_shutdown /\ ActiveWorkers(state_workers) = {}) =>
            /\ log_proc' = "exited"
            /\ shutdown_received' = shutdown_received
            /\ exit_log' = <<[reason |-> "all workers finished", missed |-> {}]>> ]_vars

C6_Witness ==
    /\ log_proc = "exited"
    /\ ~shutdown_received
    /\ exit_log # <<>>
    /\ \E n \in Nodes : state_workers[n] = "inactive"

\* C7: the shutdown flag starts false, is written only by shutdown() (its
\* step after the worker waits), goes from false to true and is never reset.
C7_FlagMonotone ==
    /\ ~logger_shutdown
    /\ [][ /\ logger_shutdown => logger_shutdown'
           /\ logger_shutdown' # logger_shutdown => pc = "set_flag" /\ pc' = "join" ]_vars

C7_Witness ==
    /\ logger_shutdown
    /\ pc = "done"

\* C8: the collector process is started before any worker process is spawned:
\* no worker exists, and no event has been published, while the collector
\* process has not been started.
C8_CollectorFirst ==
    (worker_procs # <<>> \/ (\E n \in Nodes : wstate[n] # "unspawned") \/ npub > 0
        \/ broker # <<>>)
      => log_proc # "unstarted"

C8_Witness ==
    /\ worker_procs # <<>>
    /\ log_proc = "starting"
    /\ npub > 0

\* C9: if the broker cannot be started, or is still unreachable after the
\* health-check retries, the launch raises and neither the collector nor any
\* worker is started.
C9_FatalIfUnreachable ==
    (pc \notin {"launch_redis", "check_redis"} /\ redis \in {"down", "starting"}) =>
        /\ pc = "raised"
        /\ log_proc = "unstarted"
        /\ worker_procs = <<>>

\* C10: N events through the handler give at most N log records: a task event
\* of a tracked task with a mapped state appends exactly one record, for that
\* event, at the end of the log; an event that is no task event, or whose task
\* the tracker does not hold, appends none; nothing written is changed,
\* duplicated or moved.
C10_OneRecordInOrder ==
    /\ [](/\ Len(output) <= nhandled
          /\ \A i \in DOMAIN output : output[i].src \in 1..nhandled
          /\ \A i, j \in DOMAIN output : i < j => output[i].src < output[j].src)
    /\ [][ (broker # <<>> /\ broker' = Tail(broker) /\ nhandled' = nhandled + 1) =>
            LET e == Head(broker) IN
              /\ IsPrefix(output, output')
              /\ Len(output') <= Len(output) + 1
              /\ (IsTaskType(e.type) /\ e.tracked /\ e.state \in MappedStates) =>
                    /\ Len(output') = Len(output) + 1
                    /\ output'[Len(output')].src = nhandled'
                    /\ output'[Len(output')].item.result = "TaskEvent"
                    /\ output'[Len(output')].item.id = e.uuid
                    /\ output'[Len(output')].item.node = e.hostname
              /\ (~IsTaskType(e.type) \/ ~e.tracked) => output' = output ]_vars

C10_Witness ==
    /\ Len(output) >= 2
    /\ nhandled > Len(output)
    /\ output[1].item.result = "TaskEvent"
    /\ output[2].item.result = "TaskEvent"

\* C11: a task event for a task whose broker state is absent is skipped:
\* handling it leaves the event log as it was (no record, no null line) and
\* the collector stays in its loop.
C11_AbsentStateSkipped ==
    [][ (broker # <<>> /\ broker' = Tail(broker) /\ nhandled' = nhandled + 1
           /\ IsTaskType(Head(broker).type) /\ Head(broker).tracked
           /\ Head(broker).state = "") =>
            /\ output' = output
            /\ log_proc' = "consume" ]_vars

\* C12: one worker process is spawned per node, in node order, and its
\* process count is the node's core count, less two on the coordinator's node
\* but never less than one: 4 cores give 2 and 1 or 2 cores give 1 on the
\* coordinator's node, 8 cores give 8 on a worker-only node.
C12_ProcessCounts ==
    /\ Len(worker_procs) <= NumNodes
    /\ pc = "returned" => Len(worker_procs) = NumNodes
    /\ \A i \in DOMAIN worker_procs :
         LET p == worker_procs[i]
             cores == nodes[i].num_cores
         IN  /\ p.node = i
             /\ p.nprocs >= 1
             /\ ~nodes[i].is_main => p.nprocs = cores
             /\ (nodes[i].is_main /\ cores > 2) => p.nprocs = cores - 2
             /\ (nodes[i].is_main /\ cores <= 2) => p.nprocs = 1
             /\ (nodes[i].is_main /\ cores = 4) => p.nprocs = 2
             /\ (~nodes[i].is_main /\ cores = 8) => p.nprocs = 8

C12_Witness ==
    /\ pc = "returned"
    /\ \E i, j \in DOMAIN worker_procs :
         /\ nodes[i].is_main /\ nodes[i].num_cores = 2 /\ worker_procs[i].nprocs = 1
         /\ ~nodes[j].is_main /\ nodes[j].num_cores = 8 /\ worker_procs[j].nprocs = 8

\* C13: a record of the log carries a message only when its status is FAILED;
\* a record of any other status has none, also when the task's view still
\* holds a traceback from an earlier event.
C13_MessageOnlyWhenFailed ==
    \A i \in DOMAIN output :
        (output[i].item.result = "TaskEvent" /\ output[i].item.status # "FAILED")
            => output[i].item.message = None

\* The normalizer's result for a task whose state maps to `status`: the
\* TaskEvent of that status, unless the dataset id or the hostname raises.
Yields(task, r, status) ==
    IF get_task_input_dataset_id(task).raised \/ just_hostname(task.whost).raised
      THEN r.result = Raise
      ELSE r.result = "TaskEvent" /\ r.status = status

\* C14: celery_event_to_task gives every state of the table its fixed Status
\* (PENDING, RECEIVED, RETRY, IGNORED: PENDING; STARTED: ACTIVE; SUCCESS:
\* COMPLETE; FAILURE: FAILED; REVOKED, REJECTED: CANCELLED), and for a
\* non-empty state outside the table it raises and yields no status.
C14_FixedStatusOrRaise ==
    result.fn = "celery_event_to_task" =>
        LET t == arg.task
            r == result.out
        IN  /\ t.state \in {"PENDING", "RECEIVED", "RETRY", "IGNORED"} => Yields(t, r, "PENDING")
            /\ t.state = "STARTED" => Yields(t, r, "ACTIVE")
            /\ t.state = "SUCCESS" => Yields(t, r, "COMPLETE")
            /\ t.state = "FAILURE" => Yields(t, r, "FAILED")
            /\ t.state \in {"REVOKED", "REJECTED"} => Yields(t, r, "CANCELLED")
            /\ (t.state # "" /\ t.state \notin MappedStates) =>
                  r.result = Raise /\ r.status = None
            /\ r.result = "TaskEvent" =>
                  r.status \in {"PENDING", "ACTIVE", "COMPLETE", "FAILED", "CANCELLED"}

C14_Witness ==
    /\ result.fn = "celery_event_to_task"
    /\ arg.task.state = "REJECTED"
    /\ result.out.result = "TaskEvent"
    /\ result.out.status = "CANCELLED"
    /\ result.out.event = "task.cancelled"

\* C15: the dataset id comes back when the arguments hold the marker, IdLen
\* characters of a UUID and a space; nothing comes back when the pattern does
\* not match; and no argument text, malformed, truncated or absent, makes the
\* extraction raise.
C15_ExtractNeverRaises ==
    result.fn = "extract_task_args_dataset_id" =>
        /\ ~result.out.raised
        /\ (~arg.kwargs.none /\ Matches(arg.kwargs.text) = {}) => result.out.none
        /\ (\E i \in DOMAIN arg.kwargs.text :
               /\ arg.kwargs.text[i] = "M"
               /\ i + IdLen + 1 <= Len(arg.kwargs.text)
               /\ SubSeq(arg.kwargs.text, i + 1, i + IdLen + 1) = CanonicalId \o <<" ">>)
             => result.out = Returned(Rep("h", HexLen))

\* C16: _just_hostname returns a hostname without "@" as it is, the text after
\* the "@" of a hostname with exactly one, and raises for two or more.
C16_JustHostname ==
    result.fn = "just_hostname" =>
        LET s == arg.hostname
            ats == {i \in DOMAIN s : s[i] = "@"}
        IN  /\ ats = {} => result.out = Returned(s)
            /\ Cardinality(ats) = 1 =>
                  result.out = Returned(SubSeq(s, (CHOOSE i \in ats : TRUE) + 1, Len(s)))
            /\ Cardinality(ats) >= 2 => result.out.raised

C16_Witness ==
    /\ result.fn = "just_hostname"
    /\ Len(arg.hostname) >= 3
    /\ arg.hostname[2] = "@"
    /\ result.out = Returned(SubSeq(arg.hostname, 3, Len(arg.hostname)))

\* C17: once the flag is true the collector reads it within one idle timeout,
\* whether or not events arrive meanwhile: it never spends more than
\* IdleTimeout seconds in consume() with the flag set and unread.
C17_FlagReadWithinTimeout ==
    flag_unread_seconds <= IdleTimeout

\* C18: every event the collector is handed updates the tracker, whatever
\* handle_task then does with it: a worker event sets its worker's activity,
\* a task event makes its worker known and sets the task's view. An event
\* that is no task event, and a task event whose task the tracker does not
\* hold, leaves the log as it was and the collector in its loop.
C18_TrackerFirstSkipsQuiet ==
    [][ (broker # <<>> /\ broker' = Tail(broker) /\ nhandled' = nhandled + 1) =>
            LET e == Head(broker) IN
              /\ ~IsTaskType(e.type) =>
                    /\ state_workers'[e.hostname] =
                         IF e.type[2] = "offline" THEN "inactive" ELSE "active"
                    /\ state_tasks' = state_tasks
              /\ IsTaskType(e.type) =>
                    /\ state_workers'[e.hostname] # "unseen"
                    /\ e.tracked => /\ state_tasks'[e.uuid].id = e.uuid
                                    /\ state_tasks'[e.uuid].state = e.state
                    /\ ~e.tracked => state_tasks'[e.uuid] = NoTask
              /\ \A n \in Nodes : n # e.hostname => state_workers'[n] = state_workers[n]
              /\ (~IsTaskType(e.type) \/ ~e.tracked) =>
                    /\ output' = output
                    /\ log_proc' = "consume"
                    /\ writer' = writer ]_vars

C18_Witness ==
    /\ nhandled >= 2
    /\ output = <<>>
    /\ log_proc = "consume"
    /\ \E n, m \in Nodes :
         /\ state_workers[n] = "active"
         /\ state_workers[m] = "inactive"
    /\ \A t \in TaskIds : state_tasks[t] = NoTask

\* The event at the head of the broker is one handle_task dies of: a task
\* event of a tracked task whose state is outside the map, or whose worker's
\* hostname has more than one "@".
FatalHead ==
    /\ broker # <<>>
    /\ IsTaskType(Head(broker).type)
    /\ Head(broker).tracked
    /\ Head(broker).state # ""
    /\ \/ Head(broker).state \notin MappedStates
       \/ Cardinality({i \in DOMAIN Head(broker).whost : Head(broker).whost[i] = "@"}) > 1

\* The event at the head of the broker is one handle_task has a record for.
WritableHead ==
    /\ broker # <<>>
    /\ HandleOutcome(StateEventTasks(state_tasks, Head(broker)), Head(broker)) = "write"

\* C19: the log writer is closed on every way out of the collector: when it
\* stops at a check, and when handling an event raises (a state outside the
\* map, a hostname with more than one "@", a failed write). The exception is
\* not swallowed by the idle-timeout handler: the collector ends with it.
C19_WriterClosedOnExit ==
    /\ [](/\ log_proc \in {"exited", "crashed"} => writer = "closed"
          /\ log_proc = "consume" => writer = "open")
    /\ [][ (broker # <<>> /\ broker' = Tail(broker) /\ nhandled' = nhandled + 1) =>
              /\ FatalHead => log_proc' = "crashed" /\ writer' = "closed"
              /\ (WritableHead /\ output' = output) =>
                    log_proc' = "crashed" /\ writer' = "closed" ]_vars

C19_Witness ==
    /\ log_proc = "crashed"
    /\ writer = "closed"
    /\ logger_shutdown
    /\ Len(output) = 1
    /\ nhandled = 2

\* C20: the collector ignores SIGINT and SIGTERM from before it opens the log
\* and connects to the broker: the log is never open while the signals still
\* have their default effect, a signal delivered after that changes nothing
\* of the collector, and the collector leaves its loop only at a check that
\* finds the flag set.
C20_SignalsIgnored ==
    /\ [](writer # "unopened" => log_proc \notin {"unstarted", "starting"})
    /\ [][ /\ (signals' # signals /\ log_proc # "starting") =>
                UNCHANGED <<log_proc, writer, output, state_workers, state_tasks,
                            shutdown_received, exit_log>>
           /\ (log_proc \in {"signals_ignored", "consume"} /\ log_proc' # log_proc) =>
                \/ log_proc' = "consume"
                \/ log_proc' = "exited" /\ logger_shutdown /\ signals' = signals ]_vars

C20_Witness ==
    /\ signals >= 1
    /\ log_proc = "exited"
    /\ writer = "closed"
    /\ exit_log # <<>>
    /\ pc = "done"

\* C21: the collector does not leave its loop at a check while the flag is
\* false: an idle timeout with the flag false, with no worker known or with
\* every known worker inactive, leaves it consuming, with nothing logged,
\* the writer open and the drain timer not started.
C21_NoExitWhileFlagFalse ==
    /\ [](log_proc = "exited" => logger_shutdown)
    /\ [][ (CollectorIdle /\ ~logger_shutdown) =>
              /\ log_proc' = "consume"
              /\ writer' = "open"
              /\ exit_log' = <<>>
              /\ shutdown_received' = FALSE ]_vars

C21_Witness ==
    /\ log_proc = "consume"
    /\ ~logger_shutdown
    /\ pc = "set_flag"
    /\ broker = <<>>
    /\ \E n \in Nodes : state_workers[n] = "inactive"
    /\ \E n \in Nodes : state_workers[n] = "unseen"
    /\ \A n \in Nodes : wstate[n] = "exited"

\* C22: the stop condition counts only the workers the collector has seen:
\* at a check with the flag true and a view that is empty or holds only
\* inactive workers it stops, whatever the broker still holds, and what the
\* broker holds then (events of a worker not yet seen, later events of a
\* worker seen inactive) is never consumed and never written.
C22_StopsOnObservedOnly ==
    /\ [][ (CollectorIdle /\ logger_shutdown
              /\ \A n \in Nodes : state_workers[n] \in {"unseen", "inactive"}) =>
              /\ log_proc' = "exited"
              /\ broker' = broker
              /\ output' = output ]_vars
    /\ [][ log_proc = "exited" =>
              /\ log_proc' = "exited"
              /\ broker' = broker
              /\ output' = output ]_vars

C22_Witness ==
    /\ log_proc = "exited"
    /\ pc = "done"
    /\ output = <<>>
    /\ nhandled >= 1
    /\ \E n \in Nodes : state_workers[n] = "inactive"
    /\ \E i \in DOMAIN broker :
         /\ IsTaskType(broker[i].type)
         /\ state_workers[broker[i].hostname] = "unseen"

\* C23: shutdown() ends when its waits do. Once the stop signal is out, and
\* the workers exit and the stream goes idle, shutdown() raises or returns
\* with the collector terminated and the broker stopped; and while a worker
\* process has not exited the flag is not set and the collector and the
\* broker are not stopped.
C23_ShutdownTerminates ==
    /\ (pc = "wait") ~>
          (\/ pc = "shutdown_raised"
           \/ pc = "done" /\ log_proc \in {"exited", "crashed"} /\ redis = "stopped")
    /\ []((\E n \in Nodes : wstate[n] = "running") =>
             /\ ~logger_shutdown
             /\ log_proc = "consume"
             /\ redis = "up"
             /\ pc \in {"returned", "wait", "shutdown_raised"})

C23_Witness ==
    /\ pc = "done"
    /\ log_proc = "exited"
    /\ redis = "stopped"
    /\ exit_log # <<>>
    /\ exit_log[1].reason = "time-limit reached"

\* Records of pool process p now in the queue.
Queued(p) == Cardinality({i \in DOMAIN log_queue : log_queue[i].from = p})

\* C24: a put on the bounded log queue, by a pool process or of the
\* sentinel, blocks while the queue is full and queues its item once there
\* is room; queue.Full is raised only after a wait of MAX_LOG_WAIT on a full
\* queue. The queue never holds more than its capacity, and every record
\* whose put did not time out is in the queue or has been handled: when
\* main is done, all of them have been handled.
C24_BlockingPut ==
    /\ [](/\ Len(log_queue) <= QueueMaxSize
          /\ \A p \in Producers :
               RecordsEach - producers[p].left =
                   Queued(p) + listener.handled[p] + producers[p].dropped
          /\ log_main.pc = "done" =>
               /\ log_queue = <<>>
               /\ \A p \in Producers :
                    listener.handled[p] + producers[p].dropped = RecordsEach)
    /\ [][ /\ \A p \in Producers :
                /\ producers'[p].dropped # producers[p].dropped =>
                     /\ producers[p].waited >= MAX_LOG_WAIT
                     /\ Len(log_queue) >= QueueMaxSize
                /\ (producers[p].pc = "putting" /\ producers'[p] # producers[p]) =>
                     IF Len(log_queue) < QueueMaxSize
                       THEN /\ log_queue' = Append(log_queue, Item(p, producers[p].waited))
                            /\ producers'[p].dropped = producers[p].dropped
                     ELSE IF producers[p].waited < MAX_LOG_WAIT
                       THEN /\ producers'[p].pc = "putting"
                            /\ producers'[p].left = producers[p].left
                            /\ producers'[p].waited > producers[p].waited
                            /\ log_queue' = log_queue
                     ELSE log_queue' = log_queue
           /\ (log_main'.pc = "raised" /\ log_main.pc # "raised") =>
                /\ log_main.waited >= MAX_LOG_WAIT
                /\ Len(log_queue) >= QueueMaxSize
           /\ (log_main.pc = "enqueue_sentinel" /\ log_main' # log_main
                 /\ Len(log_queue) < QueueMaxSize) =>
                log_queue' = Append(log_queue, Item(Main, log_main.waited)) ]_vars

C24_Witness ==
    /\ \E i \in DOMAIN log_queue :
         /\ log_queue[i].from \in Producers
         /\ log_queue[i].waited > 0
         /\ log_queue[i].waited < MAX_LOG_WAIT
    /\ \A p \in Producers : producers[p].dropped = 0
    /\ \E p \in Producers : listener.handled[p] >= 1

====
